---- MODULE Spec2Model ----
(***************************************************************************)
(* Detached process execution of src-tauri/src/chat/detached.rs:           *)
(* shell_escape, the POSIX spawn_detached_claude (an `sh -c` pipeline with *)
(* a PID handshake) and the Windows spawn_detached_claude (a direct spawn  *)
(* with redirected handles), together with the processes, pipes and files  *)
(* they act on.  Text is a sequence of one-character strings.              *)
(***************************************************************************)
EXTENDS Integers, Sequences, FiniteSets, TLC

VARIABLES
    \* ---- shell_escape applied to one text
    fnPc,          \* "idle" | "in" | "out": position of the pure-function runs
    escIn,         \* the text handed to shell_escape
    escOut,        \* what shell_escape returned
    \* ---- composition of the POSIX command line
    req,           \* the spawn request: cli_path, args, env_vars, input_file, output_file
    shell_cmd,     \* the composed command line (detached.rs:84-92)
    \* ---- one call of spawn_detached_claude and the world it acts on
    platform,      \* "unix" | "windows": which cfg variant is built
    exeExists,     \* cli_path names an existing executable
    inputExists,   \* input_file exists
    inputData,     \* the bytes of input_file
    prior,         \* the content of output_file when the call is made
    badPath,       \* which path is not valid UTF-8: "none" | "cli" | "input" | "output"
    outExists,     \* output_file exists
    outFile,       \* the content of output_file
    ofd,           \* the open file description the child's stdout and stderr share
    alive,         \* the process table: identifiers of the processes that exist
    role,          \* identifier -> "caller" | "sh" | "cat" | "target"
    nextPid,       \* the next identifier the OS hands out
    pc,            \* where the call is
    result,        \* what the call returned
    pid_str,       \* the trimmed first line of the shell's stdout
    status,        \* the shell's exit status as child.wait() gave it
    input_data,    \* the Windows variant's copy of the input file
    written,       \* how many bytes write_all has put into the child's stdin
    stdinParent,   \* the caller holds the write end of the child's stdin (Windows)
    stages,        \* the stages the call has run, in the order it ran them
    shPid,         \* the launching shell
    shPc,          \* where the shell is
    shStatus,      \* the shell's exit status
    lastBg,        \* the shell's $!
    shOut,         \* lines in the shell's stdout pipe, not yet read
    shWrote,       \* every line written to the shell's stdout, in order
    shErr,         \* lines in the shell's stderr pipe
    catPid,        \* the `cat` stage
    catPc,         \* where it is
    catPos,        \* how many input bytes it has copied
    tgtPid,        \* the process that is to run the target executable
    tgtPc,         \* where it is
    termBy,        \* how it ended: "none" | "self" | "killed"
    stdinPipe,     \* bytes in the pipe to the child's stdin
    childStdin,    \* the child holds the read end of that pipe
    delivered,     \* the bytes the child has read from its stdin
    childLog,      \* what the child wrote to stdout and stderr, in the order it wrote
    childEof,      \* the child has read its stdin to the end
    \* ---- platform::is_process_alive
    probe          \* the last liveness query: the identifier asked about and the answer

fnVars == <<fnPc, escIn, escOut, req, shell_cmd>>
inVars == <<platform, exeExists, inputExists, inputData, prior, badPath>>
fileVars == <<outExists, outFile, ofd>>
procVars == <<alive, role, nextPid>>
callVars == <<pc, result, pid_str, status, input_data, written, stdinParent, stages>>
shVars == <<shPid, shPc, shStatus, lastBg, shOut, shWrote>>
catVars == <<catPid, catPc, catPos>>
tgtVars == <<tgtPid, tgtPc, termBy, childStdin, delivered, childLog, childEof>>

vars == <<fnVars, inVars, fileVars, procVars, callVars, shVars, shErr, catVars,
          tgtVars, stdinPipe, probe>>

(***************************************************************************)
(* Bounds                                                                  *)
(***************************************************************************)
MaxLen == 3        \* longest text handed to shell_escape
MaxArgs == 2       \* longest argument list of a composed request
InputLen == 2      \* bytes in the input file
PipeCap == 1       \* bytes a pipe buffers before its writer blocks
MaxWrites == 2     \* writes the child issues to stdout and stderr
MaxLines == 3      \* lines a shell writes to its stdout

(***************************************************************************)
(* Text                                                                    *)
(***************************************************************************)
SQ == "'"
BS == "\\"
SP == " "

EscChars == {"a", SP, SQ, BS, "$"}

TextsUpTo(chars, n) == UNION {[1..k -> chars] : k \in 0..n}

\* [T]::join(sep)
RECURSIVE Join(_, _)
Join(ss, sep) ==
    IF ss = <<>> THEN <<>>
    ELSE IF Len(ss) = 1 THEN Head(ss)
    ELSE Head(ss) \o sep \o Join(Tail(ss), sep)

(***************************************************************************)
(* shell_escape (detached.rs:19-22)                                        *)
(***************************************************************************)
\* a mutant: the quote is only backslash-escaped, the quoting is not closed
QuoteReplacementNoClose == <<BS, SQ>>

\* the replacement text of s.replace('\'', "'\\''")
QuoteReplacement == <<SQ, BS, SQ, SQ>>

\* str::replace('\'', ...)
RECURSIVE ReplaceQuotes(_)
ReplaceQuotes(s) ==
    IF s = <<>> THEN <<>>
    ELSE (IF Head(s) = SQ THEN QuoteReplacement ELSE <<Head(s)>>)
         \o ReplaceQuotes(Tail(s))

\* format!("'{}'", s.replace('\'', "'\\''"))
shell_escape(s) == <<SQ>> \o ReplaceQuotes(s) \o <<SQ>>

(***************************************************************************)
(* How `sh -c` reads a command line (the shell launched at                 *)
(* detached.rs:99-101): token recognition with single quotes, backslash    *)
(* and operators.  A token is [kind, text, plain]; an unterminated quote   *)
(* gives the token sequence <<ShSyntaxError>>.                             *)
(***************************************************************************)
OpChars == {"|", "&", ">", "<", ";", "(", ")"}
Blank == {SP, "\t", "\n"}
Digits == {"0", "1", "2", "3", "4", "5", "6", "7", "8", "9"}

\* a word after quote removal; plain: how many of its leading characters were
\* written outside quotes and without a backslash
Word(t, plain) == [kind |-> "word", text |-> t, plain |-> plain]
Op(t) == [kind |-> "op", text |-> t, plain |-> 0]
\* an unquoted number directly before < or >: the descriptor of a redirection
IoNumber(t) == [kind |-> "io", text |-> t, plain |-> Len(t)]
ShSyntaxError == [kind |-> "error", text |-> <<>>, plain |-> 0]

\* the operator starting at position i: greedy, two characters when they form one
OpAt(cmd, i) ==
    LET two == IF i < Len(cmd) THEN <<cmd[i], cmd[i + 1]>> ELSE <<>>
    IN  IF two \in {<<">", ">">>, <<">", "&">>, <<"<", "&">>, <<"<", "<">>,
                    <<"&", "&">>, <<"|", "|">>, <<";", ";">>, <<">", "|">>}
        THEN two ELSE <<cmd[i]>>

\* pl counts the leading plain characters of cur while pl >= 0; a quote or a
\* backslash freezes the count n as -n-1
Freeze(pl) == IF pl >= 0 THEN -pl - 1 ELSE pl
PlainOf(pl) == IF pl >= 0 THEN pl ELSE -pl - 1

\* what the character at position i is to the shell (q: inside single quotes)
LexKind(cmd, i, q) ==
    IF i > Len(cmd) THEN "end"
    ELSE IF q THEN (IF cmd[i] = SQ THEN "close" ELSE "quoted")
    ELSE IF cmd[i] = SQ THEN "open"
    ELSE IF cmd[i] = BS THEN (IF i < Len(cmd) THEN "escape" ELSE "char")
    ELSE IF cmd[i] \in Blank THEN "blank"
    ELSE IF cmd[i] \in OpChars THEN "op"
    ELSE "char"

\* the word that ends before position i, as the tokens it adds
Flush(cmd, i, cur, pl, inWord) ==
    IF ~inWord THEN <<>>
    ELSE IF /\ i <= Len(cmd) /\ cmd[i] \in {"<", ">"} /\ cur # <<>> /\ pl = Len(cur)
            /\ \A k \in 1..Len(cur) : cur[k] \in Digits
    THEN <<IoNumber(cur)>>
    ELSE <<Word(cur, PlainOf(pl))>>

\* cur: the word being read; inWord: a word has begun (a quoted empty text is a
\* word); q: inside single quotes; acc: the tokens read so far
RECURSIVE ShLex(_, _, _, _, _, _, _)
ShLex(cmd, i, cur, pl, inWord, q, acc) ==
    CASE LexKind(cmd, i, q) = "end" ->
            IF q THEN <<ShSyntaxError>> ELSE acc \o Flush(cmd, i, cur, pl, inWord)
      [] LexKind(cmd, i, q) = "close" ->
            ShLex(cmd, i + 1, cur, pl, TRUE, FALSE, acc)
      [] LexKind(cmd, i, q) = "quoted" ->
            ShLex(cmd, i + 1, cur \o <<cmd[i]>>, pl, TRUE, TRUE, acc)
      [] LexKind(cmd, i, q) = "open" ->
            ShLex(cmd, i + 1, cur, Freeze(pl), TRUE, TRUE, acc)
      [] LexKind(cmd, i, q) = "escape" ->
            ShLex(cmd, i + 2, cur \o <<cmd[i + 1]>>, Freeze(pl), TRUE, FALSE, acc)
      [] LexKind(cmd, i, q) = "blank" ->
            ShLex(cmd, i + 1, <<>>, 0, FALSE, FALSE,
                  acc \o Flush(cmd, i, cur, pl, inWord))
      [] LexKind(cmd, i, q) = "op" ->
            ShLex(cmd, i + Len(OpAt(cmd, i)), <<>>, 0, FALSE, FALSE,
                  acc \o Flush(cmd, i, cur, pl, inWord) \o <<Op(OpAt(cmd, i))>>)
      [] LexKind(cmd, i, q) = "char" ->
            ShLex(cmd, i + 1, cur \o <<cmd[i]>>,
                  IF pl >= 0 THEN pl + 1 ELSE pl, TRUE, FALSE, acc)

ShTokens(cmd) == ShLex(cmd, 1, <<>>, 0, FALSE, FALSE, <<>>)

(***************************************************************************)
(* The POSIX command line (detached.rs:53-92)                              *)
(***************************************************************************)
\* args.iter().map(|arg| shell_escape(arg)).collect::<Vec<_>>().join(" ")
ArgsStr(args) == Join([k \in 1..Len(args) |-> shell_escape(args[k])], <<SP>>)

\* env_vars.iter().map(|(k, v)| format!("{}={}", k, shell_escape(v))).join(" ")
EnvExports(env) ==
    Join([k \in 1..Len(env) |-> env[k][1] \o <<"=">> \o shell_escape(env[k][2])], <<SP>>)

LitCat == <<"c", "a", "t", SP>>
LitPipe == <<SP, "|", SP>>
LitNohup == <<"n", "o", "h", "u", "p", SP>>
LitAppend == <<SP, ">", ">", SP>>
LitTail == <<SP, "2", ">", "&", "1", SP, "&", SP, "e", "c", "h", "o", SP, "$", "!">>

\* the two format! strings of shell_cmd
ShellCmd(r) ==
    LET cli_path_escaped == shell_escape(r.cli_path)
        input_path_escaped == shell_escape(r.input_file)
        output_path_escaped == shell_escape(r.output_file)
        args_str == ArgsStr(r.args)
        env_exports == EnvExports(r.env_vars)
    IN  IF env_exports = <<>>
        THEN LitCat \o input_path_escaped \o LitPipe \o LitNohup
             \o cli_path_escaped \o <<SP>> \o args_str
             \o LitAppend \o output_path_escaped \o LitTail
        ELSE LitCat \o input_path_escaped \o LitPipe \o env_exports \o <<SP>>
             \o LitNohup \o cli_path_escaped \o <<SP>> \o args_str
             \o LitAppend \o output_path_escaped \o LitTail

(***************************************************************************)
(* How `sh -c` runs the line: the pipeline stage after `|`, its            *)
(* redirections and assignments set aside, is the command `nohup` gets;    *)
(* nohup runs its first argument with the remaining ones.                  *)
(***************************************************************************)
IndexOfOp(toks, text) ==
    LET hits == {k \in 1..Len(toks) : toks[k] = Op(text)}
    IN  IF hits = {} THEN 0 ELSE CHOOSE k \in hits : \A j \in hits : k <= j

\* the tokens of the last pipeline stage of the backgrounded list
TargetStage(toks) ==
    LET p == IndexOfOp(toks, <<"|">>)
        b == IndexOfOp(toks, <<"&">>)
    IN  IF p = 0 \/ b = 0 \/ b < p THEN <<>> ELSE SubSeq(toks, p + 1, b - 1)

RedirOps == {<<">">>, <<">", ">">>, <<">", "&">>, <<"<">>, <<"<", "&">>, <<">", "|">>}

\* the words of a simple command without its redirections
RECURSIVE StripRedirections(_)
StripRedirections(toks) ==
    IF toks = <<>> THEN <<>>
    ELSE IF Head(toks).kind = "io" THEN StripRedirections(Tail(toks))
    ELSE IF Head(toks).kind = "op" /\ Head(toks).text \in RedirOps
    THEN StripRedirections(IF Len(toks) >= 2 THEN Tail(Tail(toks)) ELSE <<>>)
    ELSE <<Head(toks)>> \o StripRedirections(Tail(toks))

NameStart == {"K", "L", "a", "_"}
NameChar == NameStart \cup Digits

\* NAME=value with NAME and = written plainly
IsAssignment(tok) ==
    /\ tok.kind = "word"
    /\ \E j \in 2..tok.plain :
        /\ tok.text[j] = "="
        /\ tok.text[1] \in NameStart
        /\ \A k \in 2..(j - 1) : tok.text[k] \in NameChar

RECURSIVE DropAssignments(_)
DropAssignments(toks) ==
    IF toks # <<>> /\ IsAssignment(Head(toks))
    THEN DropAssignments(Tail(toks)) ELSE toks

\* argv of the command the last stage executes
StageArgv(cmd) ==
    LET words == DropAssignments(StripRedirections(TargetStage(ShTokens(cmd))))
    IN  [k \in 1..Len(words) |-> words[k].text]

\* what nohup executes, and the arguments it hands over
TargetExe(cmd) ==
    LET argv == StageArgv(cmd) IN IF Len(argv) >= 2 THEN <<argv[2]>> ELSE <<>>
TargetArgs(cmd) ==
    LET argv == StageArgv(cmd) IN SubSeq(argv, 3, Len(argv))

\* two blanks in a row outside quotes: a separator that separates nothing
RECURSIVE DoubleBlank(_, _, _)
DoubleBlank(cmd, i, q) ==
    IF i >= Len(cmd) THEN FALSE
    ELSE IF cmd[i] = SQ THEN DoubleBlank(cmd, i + 1, ~q)
    ELSE IF ~q /\ cmd[i] = BS THEN DoubleBlank(cmd, i + 2, q)
    ELSE IF ~q /\ cmd[i] \in Blank /\ cmd[i + 1] \in Blank THEN TRUE
    ELSE DoubleBlank(cmd, i + 1, q)

(***************************************************************************)
(* Numbers as text: what `echo $!` prints and what str::parse::<u32> reads *)
(***************************************************************************)
DigitSeq == <<"0", "1", "2", "3", "4", "5", "6", "7", "8", "9">>
DigitVal(c) == (CHOOSE d \in 1..10 : DigitSeq[d] = c) - 1

RECURSIVE ToDec(_)
ToDec(n) ==
    IF n < 10 THEN <<DigitSeq[n + 1]>>
    ELSE ToDec(n \div 10) \o <<DigitSeq[(n % 10) + 1]>>

RECURSIVE DecValue(_)
DecValue(s) ==
    IF s = <<>> THEN 0
    ELSE 10 * DecValue(SubSeq(s, 1, Len(s) - 1)) + DigitVal(s[Len(s)])

ParseFailed == [ok |-> FALSE, val |-> 0]
Parsed(n) == [ok |-> TRUE, val |-> n]

\* str::parse::<u32>(): an optional +, then one digit at least and digits only
\* (the identifiers of the model stay far below 2^32)
ParseU32(s) ==
    LET body == IF s # <<>> /\ Head(s) = "+" THEN Tail(s) ELSE s
    IN  IF body = <<>> \/ \E k \in 1..Len(body) : body[k] \notin Digits
        THEN ParseFailed
        ELSE Parsed(DecValue(body))

\* str::trim()
RECURSIVE TrimStart(_)
TrimStart(s) == IF s # <<>> /\ Head(s) \in Blank THEN TrimStart(Tail(s)) ELSE s
RECURSIVE TrimEnd(_)
TrimEnd(s) ==
    IF s # <<>> /\ s[Len(s)] \in Blank THEN TrimEnd(SubSeq(s, 1, Len(s) - 1)) ELSE s
Trim(s) == TrimEnd(TrimStart(s))

(***************************************************************************)
(* Results, files, the process table                                       *)
(***************************************************************************)
NoResult == [kind |-> "none", pid |-> 0, err |-> "none"]
Ok(p) == [kind |-> "Ok", pid |-> p, err |-> "none"]
Err(e) == [kind |-> "Err", pid |-> 0, err |-> e]

NoRequest == [cli_path |-> <<>>, args |-> <<>>, env_vars |-> <<>>,
              input_file |-> <<>>, output_file |-> <<>>]

\* std::process::id() of the caller (detached.rs:255)
CallerPid == 1

Closed == [mode |-> "closed", off |-> 0]

\* open(2) of the output file: "append" is O_APPEND, "trunc" is O_TRUNC
OpenFd(mode) == [mode |-> mode, off |-> 0]
ContentAfterOpen(file, mode) == IF mode = "trunc" THEN <<>> ELSE file

\* write(2) through an open file description: at the end of the file in append
\* mode, at the description's offset otherwise
WritePos(file, fd) == IF fd.mode = "append" THEN Len(file) ELSE fd.off
WriteAt(file, fd, data) ==
    LET pos == WritePos(file, fd)
    IN  SubSeq(file, 1, pos) \o data \o SubSeq(file, pos + Len(data) + 1, Len(file))
FdAfterWrite(file, fd, data) == [fd EXCEPT !.off = WritePos(file, fd) + Len(data)]

\* no liveness query has been made
NoProbe == [pid |-> 0, answer |-> FALSE, asked |-> FALSE]

\* a mutant: the probe answers yes for every identifier
AlwaysAlive(p) == TRUE

\* the liveness probe: a process with this identifier exists
is_process_alive(p) == p \in alive

\* the input file's bytes
InputBytes == [k \in 1..InputLen |-> k]

worldVars == <<inVars, fileVars, procVars, callVars, shVars, shErr, catVars,
               tgtVars, stdinPipe, probe>>

\* no call is being made
WorldIdle ==
    /\ platform = "unix" /\ exeExists = TRUE /\ inputExists = TRUE
    /\ inputData = <<>> /\ prior = <<>> /\ badPath = "none"
    /\ outExists = TRUE /\ outFile = <<>> /\ ofd = Closed
    /\ alive = {CallerPid} /\ role = (CallerPid :> "caller") /\ nextPid = CallerPid + 1
    /\ pc = "idle" /\ result = NoResult /\ pid_str = <<>> /\ status = "none"
    /\ input_data = <<>> /\ written = 0 /\ stdinParent = FALSE /\ stages = <<>>
    /\ shPid = 0 /\ shPc = "none" /\ shStatus = "none" /\ lastBg = 0
    /\ shOut = <<>> /\ shWrote = <<>> /\ shErr = <<>>
    /\ catPid = 0 /\ catPc = "none" /\ catPos = 0
    /\ tgtPid = 0 /\ tgtPc = "none" /\ termBy = "none"
    /\ stdinPipe = <<>> /\ childStdin = FALSE /\ delivered = <<>> /\ childLog = <<>>
    /\ childEof = FALSE
    /\ probe = NoProbe

(***************************************************************************)
(* One call of spawn_detached_claude, for every platform, with or without  *)
(* the executable, the input file and the output file                      *)
(***************************************************************************)
Init ==
    /\ fnPc = "idle" /\ escIn = <<>> /\ escOut = <<>>
    /\ req = NoRequest /\ shell_cmd = <<>>
    /\ platform \in {"unix", "windows"}
    /\ exeExists \in BOOLEAN
    /\ inputExists \in BOOLEAN
    /\ inputData = IF inputExists THEN InputBytes ELSE <<>>
    /\ outExists \in BOOLEAN
    /\ prior = IF outExists THEN <<"header">> ELSE <<>>
    /\ badPath \in IF platform = "unix" THEN {"none", "cli", "input", "output"}
                                        ELSE {"none"}
    /\ outFile = prior
    /\ ofd = Closed
    /\ alive = {CallerPid} /\ role = (CallerPid :> "caller") /\ nextPid = CallerPid + 1
    /\ pc = "call" /\ result = NoResult /\ pid_str = <<>> /\ status = "none"
    /\ input_data = <<>> /\ written = 0 /\ stdinParent = FALSE /\ stages = <<>>
    /\ shPid = 0 /\ shPc = "none" /\ shStatus = "none" /\ lastBg = 0
    /\ shOut = <<>> /\ shWrote = <<>> /\ shErr = <<>>
    /\ catPid = 0 /\ catPc = "none" /\ catPos = 0
    /\ tgtPid = 0 /\ tgtPc = "none" /\ termBy = "none"
    /\ stdinPipe = <<>> /\ childStdin = FALSE /\ delivered = <<>> /\ childLog = <<>>
    /\ childEof = FALSE
    /\ probe = NoProbe

(***************************************************************************)
(* The POSIX variant (detached.rs:32-162)                                  *)
(***************************************************************************)
\* a mutant: a failed stage is run again
RetryAfterFailure(stage) == stage

\* where the call goes when the stage it is at has failed: every failure is
\* returned with `?` or `return Err(..)`, so the call is over
AfterFailure(stage) == "done"

\* a mutant: the paths are handed on without the check
PathsNeverChecked(bp) == TRUE

\* cli_path, input_file and output_file all convert with to_str() (55-65)
UnixPathsValid(bp) == bp = "none"

\* the path validation (53-65), the composition of the command line (67-92)
\* and silent_command("sh").arg("-c").arg(&shell_cmd)...spawn() (98-107)
UnixLaunchShell ==
    /\ platform = "unix" /\ pc = "call"
    /\ IF ~UnixPathsValid(badPath)
       THEN /\ result' = Err("InvalidPath")
            /\ pc' = AfterFailure("call")
            /\ stages' = Append(stages, "validate")
            /\ UNCHANGED <<shPid, shPc, procVars>>
       ELSE /\ stages' = stages \o <<"validate", "launch">>
            /\ \/ /\ shPid' = nextPid
                  /\ nextPid' = nextPid + 1
                  /\ alive' = alive \cup {nextPid}
                  /\ role' = role @@ (nextPid :> "sh")
                  /\ shPc' = "start"
                  /\ pc' = "read"
                  /\ UNCHANGED result
               \/ /\ result' = Err("ShellLaunchFailure")
                  /\ pc' = AfterFailure("call")
                  /\ UNCHANGED <<shPid, shPc, procVars>>
    /\ UNCHANGED <<fnVars, probe, inVars, fileVars, pid_str, status, input_data, written,
                   stdinParent, shStatus, lastBg, shOut, shWrote, shErr, catVars,
                   tgtVars, stdinPipe>>

\* a byte that is no part of any UTF-8 text
InvalidByte == "0xFF"

\* lines() gives Ok(l) for a line of valid UTF-8 and Err(e) for any other
Readable(line) == \A k \in 1..Len(line) : line[k] # InvalidByte

\* a mutant: a line that could not be read ends the loop as well
BreaksOnAnyLine(line) == TRUE

\* the loop ends with `break` on the first Ok(l) (117-120); an Err(e) is
\* logged and the loop goes on (122-124)
Breaks(line) == Readable(line)

\* the read loop (116-127) over the lines the pipe gives: whether it took a
\* line, the trimmed line it took, and the lines it left in the pipe
RECURSIVE ReadLoop(_)
ReadLoop(lines) ==
    IF lines = <<>>
    THEN [found |-> FALSE, pid_str |-> <<>>, rest |-> <<>>]
    ELSE IF Breaks(Head(lines))
         THEN [found |-> TRUE, pid_str |-> Trim(Head(lines)), rest |-> Tail(lines)]
         ELSE ReadLoop(Tail(lines))

\* the read loop (109-127): it ends at the first line it can read, or at the
\* end of file, which comes once the shell has exited
UnixReadPid ==
    /\ platform = "unix" /\ pc = "read"
    /\ ReadLoop(shOut).found \/ shPc = "exited"
    /\ pid_str' = ReadLoop(shOut).pid_str
    /\ shOut' = ReadLoop(shOut).rest
    /\ pc' = "wait"
    /\ stages' = Append(stages, "read")
    /\ UNCHANGED <<fnVars, probe, inVars, fileVars, procVars, result, status, input_data,
                   written, stdinParent, shPid, shPc, shStatus, lastBg, shWrote, shErr,
                   catVars, tgtVars, stdinPipe>>

\* the PID parse (155-161)
UnixParsed(str) ==
    IF ParseU32(str).ok THEN Ok(ParseU32(str).val) ELSE Err("PidParseFailure")

\* a mutant: a line that parses outweighs the shell's status
ShellFailedUnlessPid(st, str) == st # "success" /\ ~ParseU32(str).ok

\* `if !status.success()` (137), which comes before the parse
ShellFailed(st, str) == st # "success"

\* child.wait() (133-135) returns once the shell has exited, or fails; then
\* the status check (137) and, on success, the PID parse (155-161)
UnixWait ==
    /\ platform = "unix" /\ pc = "wait"
    /\ shPc = "exited"
    /\ stages' = Append(stages, "wait")
    /\ \/ /\ status' = shStatus
          /\ IF ShellFailed(shStatus, pid_str)
             THEN pc' = "collect" /\ UNCHANGED result
             ELSE pc' = "done" /\ result' = UnixParsed(pid_str)
       \/ /\ result' = Err("WaitFailure")
          /\ pc' = AfterFailure("wait")
          /\ UNCHANGED status
    /\ UNCHANGED <<fnVars, probe, inVars, fileVars, procVars, pid_str, input_data, written,
                   stdinParent, shVars, shErr, catVars, tgtVars, stdinPipe>>

\* the processes that hold the write end of the shell's stderr pipe: the shell,
\* `cat` (its stderr is not redirected) and the last stage until its 2>&1
StderrWriters ==
    {p \in alive : \/ p = shPid
                   \/ p = catPid
                   \/ p = tgtPid /\ tgtPc = "forked"}

\* the stderr collection (139-151): lines() reads to the end of file, which
\* comes when no process holds the write end any more
UnixCollectStderr ==
    /\ platform = "unix" /\ pc = "collect"
    /\ StderrWriters = {}
    /\ result' = Err("ShellFailure")
    /\ pc' = AfterFailure("collect")
    /\ stages' = Append(stages, "collect")
    /\ UNCHANGED <<fnVars, probe, inVars, fileVars, procVars, pid_str, status, input_data,
                   written, stdinParent, shVars, shErr, catVars, tgtVars, stdinPipe>>

(***************************************************************************)
(* What `sh -c` does with                                                  *)
(*   cat IN | [ENV] nohup EXE ARGS >> OUT 2>&1 & echo $!      (84-92)      *)
(***************************************************************************)
\* a mutant: `echo $$`, the shell's own identifier
EchoValueShell(sh, bg) == sh

\* `echo $!`: the identifier of the last stage of the backgrounded pipeline
EchoValue(sh, bg) == bg

\* a mutant: `> OUT`
UnixOutputModeTrunc == "trunc"

\* `>> OUT`
UnixOutputMode == "append"

\* `... | ... &`: the shell forks both stages of the pipeline and goes on
ShFork ==
    /\ shPc = "start"
    /\ catPid' = nextPid /\ catPc' = "forked"
    /\ tgtPid' = nextPid + 1 /\ tgtPc' = "forked"
    /\ lastBg' = nextPid + 1
    /\ nextPid' = nextPid + 2
    /\ alive' = alive \cup {nextPid, nextPid + 1}
    /\ role' = role @@ (nextPid :> "cat") @@ ((nextPid + 1) :> "target")
    /\ childStdin' = TRUE
    /\ shPc' = "forked"
    /\ UNCHANGED <<fnVars, probe, inVars, fileVars, callVars, shPid, shStatus, shOut,
                   shWrote, shErr,
                   catPos, termBy, delivered, childLog, stdinPipe, childEof>>

ShEcho ==
    /\ shPc = "forked"
    /\ shOut' = Append(shOut, ToDec(EchoValue(shPid, lastBg)))
    /\ shWrote' = Append(shWrote, ToDec(EchoValue(shPid, lastBg)))
    /\ shPc' = "echoed"
    /\ UNCHANGED <<fnVars, probe, inVars, fileVars, procVars, callVars, shPid, shStatus,
                   lastBg, shErr, catVars, tgtVars, stdinPipe>>

\* the shell exits with the status of its last command, `echo`
ShExit ==
    /\ shPc = "echoed"
    /\ shPc' = "exited" /\ shStatus' = "success"
    /\ alive' = alive \ {shPid}
    /\ UNCHANGED <<fnVars, probe, inVars, fileVars, role, nextPid, callVars, shPid, lastBg,
                   shOut, shWrote, shErr, catVars, tgtVars, stdinPipe>>

\* the shell ends without success (it cannot fork, or a signal ends it),
\* before or after it has started the pipeline
ShAbort ==
    /\ shPc \in {"start", "forked", "echoed"}
    /\ shPc' = "exited" /\ shStatus' = "failure"
    /\ shErr' = Append(shErr, "sh: error")
    /\ alive' = alive \ {shPid}
    /\ UNCHANGED <<fnVars, probe, inVars, fileVars, role, nextPid, callVars, shPid, lastBg,
                   shOut, shWrote, catVars, tgtVars, stdinPipe>>

(***************************************************************************)
(* The `cat IN` stage                                                      *)
(***************************************************************************)
\* cat opens the input file; without it, it complains on stderr and exits
CatOpen ==
    /\ catPc = "forked"
    /\ IF inputExists
       THEN catPc' = "copy" /\ UNCHANGED <<shErr, alive>>
       ELSE /\ catPc' = "exited"
            /\ shErr' = Append(shErr, "cat: No such file or directory")
            /\ alive' = alive \ {catPid}
    /\ UNCHANGED <<fnVars, probe, inVars, fileVars, role, nextPid, callVars, shVars, catPid,
                   catPos, tgtVars, stdinPipe>>

\* cat copies a byte into the pipe; it blocks while the pipe is full
CatCopy ==
    /\ catPc = "copy" /\ catPos < Len(inputData)
    /\ childStdin /\ Len(stdinPipe) < PipeCap
    /\ stdinPipe' = Append(stdinPipe, inputData[catPos + 1])
    /\ catPos' = catPos + 1
    /\ UNCHANGED <<fnVars, probe, inVars, fileVars, procVars, callVars, shVars, shErr, catPid,
                   catPc, tgtVars>>

\* cat is done, or the pipe has no reader left (SIGPIPE): it ends
CatExit ==
    /\ catPc = "copy"
    /\ catPos = Len(inputData) \/ ~childStdin
    /\ catPc' = "exited"
    /\ alive' = alive \ {catPid}
    /\ UNCHANGED <<fnVars, probe, inVars, fileVars, role, nextPid, callVars, shVars, shErr,
                   catPid, catPos, tgtVars, stdinPipe>>

(***************************************************************************)
(* The last stage: `>> OUT 2>&1`, then nohup runs the executable           *)
(***************************************************************************)
\* the redirections: the output file is opened (and created), stderr joins stdout
TargetRedirect ==
    /\ tgtPc = "forked"
    /\ outExists' = TRUE
    /\ outFile' = ContentAfterOpen(outFile, UnixOutputMode)
    /\ ofd' = OpenFd(UnixOutputMode)
    /\ tgtPc' = "redirected"
    /\ UNCHANGED <<fnVars, probe, inVars, procVars, callVars, shVars, shErr, catVars, tgtPid,
                   termBy, childStdin, delivered, childLog, stdinPipe, childEof>>

NohupFailed == <<"nohup: failed to run command">>

\* nohup executes the executable in this very process; when there is none, it
\* says so on stderr and exits
TargetExec ==
    /\ tgtPc = "redirected"
    /\ IF exeExists
       THEN /\ tgtPc' = "running"
            /\ UNCHANGED <<outFile, ofd, childLog, termBy, childStdin, alive>>
       ELSE /\ outFile' = WriteAt(outFile, ofd, NohupFailed)
            /\ ofd' = FdAfterWrite(outFile, ofd, NohupFailed)
            /\ childLog' = childLog \o NohupFailed
            /\ tgtPc' = "exited" /\ termBy' = "self"
            /\ childStdin' = FALSE
            /\ alive' = alive \ {tgtPid}
    /\ UNCHANGED <<fnVars, probe, inVars, outExists, role, nextPid, callVars, shVars, shErr,
                   catVars, tgtPid, delivered, stdinPipe, childEof>>

(***************************************************************************)
(* The target executable, on either platform: it may write to stdout and   *)
(* stderr, read its stdin, close it, and exit, or do none of these         *)
(***************************************************************************)
ChildWrite ==
    /\ tgtPc = "running"
    /\ Len(childLog) < MaxWrites
    /\ \E data \in {<<"out">>, <<"err">>} :
        /\ outFile' = WriteAt(outFile, ofd, data)
        /\ ofd' = FdAfterWrite(outFile, ofd, data)
        /\ childLog' = childLog \o data
    /\ UNCHANGED <<fnVars, probe, inVars, outExists, procVars, callVars, shVars, shErr,
                   catVars, tgtPid, tgtPc, termBy, childStdin, delivered, stdinPipe, childEof>>

ChildRead ==
    /\ tgtPc = "running" /\ childStdin
    /\ stdinPipe # <<>>
    /\ delivered' = Append(delivered, Head(stdinPipe))
    /\ stdinPipe' = Tail(stdinPipe)
    /\ UNCHANGED <<fnVars, probe, inVars, fileVars, procVars, callVars, shVars, shErr,
                   catVars, tgtPid, tgtPc, termBy, childStdin, childLog, childEof>>

\* the processes that hold the write end of the pipe to the child's stdin: the
\* caller on Windows until it drops it, `cat` on POSIX until it exits
StdinWriters ==
    {p \in alive : \/ p = CallerPid /\ stdinParent
                   \/ p = catPid}

\* a read of the empty pipe returns the end of input once no process holds the
\* write end; until then it blocks
ChildReadEof ==
    /\ tgtPc = "running" /\ childStdin /\ ~childEof
    /\ stdinPipe = <<>>
    /\ StdinWriters = {}
    /\ childEof' = TRUE
    /\ UNCHANGED <<fnVars, probe, inVars, fileVars, procVars, callVars, shVars, shErr,
                   catVars, tgtPid, tgtPc, termBy, childStdin, delivered, childLog,
                   stdinPipe>>

ChildCloseStdin ==
    /\ tgtPc = "running" /\ childStdin
    /\ childStdin' = FALSE
    /\ UNCHANGED <<fnVars, probe, inVars, fileVars, procVars, callVars, shVars, shErr,
                   catVars, tgtPid, tgtPc, termBy, delivered, childLog, stdinPipe, childEof>>

ChildExit ==
    /\ tgtPc = "running"
    /\ tgtPc' = "exited" /\ termBy' = "self"
    /\ childStdin' = FALSE
    /\ alive' = alive \ {tgtPid}
    /\ UNCHANGED <<fnVars, probe, inVars, fileVars, role, nextPid, callVars, shVars, shErr,
                   catVars, tgtPid, delivered, childLog, stdinPipe, childEof>>

(***************************************************************************)
(* The Windows variant (detached.rs:170-237)                               *)
(***************************************************************************)
\* a mutant: OpenOptions::new().write(true).truncate(true)
WinOutputModeTrunc == "trunc"

\* OpenOptions::new().append(true) (186-187)
WinOutputMode == "append"

\* a mutant: the child is killed when its stdin cannot be written
KillAfterWriteError(table, child) == table \ {child}

\* the process table after the stdin write has failed (228-230): the error is
\* returned and nothing is done to the child
TableAfterWriteError(table, child) == table

\* a mutant: the input file is read before the child is spawned
WinReadBeforeSpawn(stage) ==
    CASE stage = "call" -> "clone"
      [] stage = "clone" -> "readinput"
      [] stage = "readinput" -> "spawn"
      [] stage = "spawn" -> "write"

\* the stage that follows a stage that succeeded: open the output file
\* (185-189), duplicate its handle (191-194), spawn the child (216-219), read
\* the input file (223-225), write it to the child's stdin (227-230)
WinStageAfter(stage) ==
    CASE stage = "call" -> "clone"
      [] stage = "clone" -> "spawn"
      [] stage = "spawn" -> "readinput"
      [] stage = "readinput" -> "write"

\* a mutant: the pipe's write end outlives the call
StdinLeaked(held) == held

\* the caller's end of the child's stdin once the call is over: `child` or
\* `stdin` goes out of scope (225, 230, 231), which closes it
StdinAfterReturn(held) == FALSE

\* the stage is entered unless the call is already in it
Enter(st, stage) == IF st # <<>> /\ st[Len(st)] = stage THEN st ELSE Append(st, stage)

\* OpenOptions::new().append(true).open(output_file) (186-189): the file is
\* not created
WinOpenOutput ==
    /\ platform = "windows" /\ pc = "call"
    /\ IF outExists
       THEN /\ outFile' = ContentAfterOpen(outFile, WinOutputMode)
            /\ ofd' = OpenFd(WinOutputMode)
            /\ pc' = WinStageAfter("call")
            /\ UNCHANGED result
       ELSE /\ result' = Err("OutputOpenFailure")
            /\ pc' = AfterFailure("call")
            /\ UNCHANGED <<outFile, ofd>>
    /\ stages' = Append(stages, "open")
    /\ UNCHANGED <<fnVars, probe, inVars, outExists, procVars, pid_str, status, input_data,
                   written, stdinParent, shVars, shErr, catVars, tgtVars, stdinPipe>>

\* out_file.try_clone() (192-194)
WinCloneHandle ==
    /\ platform = "windows" /\ pc = "clone"
    /\ \/ pc' = WinStageAfter("clone") /\ UNCHANGED <<result, ofd>>
       \/ /\ result' = Err("HandleCloneFailure")
          /\ ofd' = Closed
          /\ pc' = AfterFailure("clone")
    /\ stages' = Append(stages, "clone")
    /\ UNCHANGED <<fnVars, probe, inVars, outExists, outFile, procVars, pid_str, status,
                   input_data, written, stdinParent, shVars, shErr, catVars, tgtVars,
                   stdinPipe>>

\* cmd.spawn() and child.id() (217-221): the child starts with the two file
\* handles as stdout and stderr and a pipe as stdin
WinSpawn ==
    /\ platform = "windows" /\ pc = "spawn"
    /\ IF exeExists
       THEN /\ tgtPid' = nextPid
            /\ nextPid' = nextPid + 1
            /\ alive' = alive \cup {nextPid}
            /\ role' = role @@ (nextPid :> "target")
            /\ tgtPc' = "running"
            /\ childStdin' = TRUE
            /\ stdinParent' = TRUE
            /\ pc' = WinStageAfter("spawn")
            /\ UNCHANGED <<result, ofd>>
       ELSE /\ result' = Err("SpawnFailure")
            /\ ofd' = Closed
            /\ pc' = AfterFailure("spawn")
            /\ UNCHANGED <<tgtPid, procVars, tgtPc, childStdin, stdinParent>>
    /\ stages' = Append(stages, "spawn")
    /\ UNCHANGED <<fnVars, probe, inVars, outExists, outFile, pid_str, status, input_data,
                   written, shVars, shErr, catVars, termBy, delivered, childLog,
                   stdinPipe, childEof>>

\* std::fs::read(input_file) (224-225); on failure `child` is dropped, which
\* closes the caller's end of the stdin pipe and leaves the child running
WinReadInput ==
    /\ platform = "windows" /\ pc = "readinput"
    /\ IF inputExists
       THEN /\ input_data' = inputData
            /\ pc' = WinStageAfter("readinput")
            /\ UNCHANGED <<result, stdinParent>>
       ELSE /\ result' = Err("InputReadFailure")
            /\ stdinParent' = StdinAfterReturn(stdinParent)
            /\ pc' = AfterFailure("readinput")
            /\ UNCHANGED input_data
    /\ stages' = Append(stages, "readinput")
    /\ UNCHANGED <<fnVars, probe, inVars, fileVars, procVars, pid_str, status, written,
                   shVars, shErr, catVars, tgtVars, stdinPipe>>

\* stdin.write_all(&input_data) (228-229), a byte at a time; it blocks while
\* the pipe is full
WinWrite ==
    /\ platform = "windows" /\ pc = "write"
    /\ written < Len(input_data)
    /\ childStdin /\ Len(stdinPipe) < PipeCap
    /\ stdinPipe' = Append(stdinPipe, input_data[written + 1])
    /\ written' = written + 1
    /\ stages' = Enter(stages, "write")
    /\ UNCHANGED <<fnVars, probe, inVars, fileVars, procVars, pc, result, pid_str, status,
                   input_data, stdinParent, shVars, shErr, catVars, tgtVars>>

\* the write fails (230): the pipe has no reader any more
WinWriteFailed ==
    /\ platform = "windows" /\ pc = "write"
    /\ written < Len(input_data)
    /\ ~childStdin
    /\ result' = Err("StdinWriteFailure")
    /\ stdinParent' = StdinAfterReturn(stdinParent)
    /\ alive' = TableAfterWriteError(alive, tgtPid)
    /\ pc' = AfterFailure("write")
    /\ stages' = Enter(stages, "write")
    /\ UNCHANGED <<fnVars, probe, inVars, fileVars, role, nextPid, pid_str, status,
                   input_data, written, shVars, shErr, catVars, tgtVars, stdinPipe>>

\* stdin is dropped (231), which is the end of input for the child; Ok(pid) (236)
WinReturn ==
    /\ platform = "windows" /\ pc = "write"
    /\ written = Len(input_data)
    /\ stdinParent' = StdinAfterReturn(stdinParent)
    /\ result' = Ok(tgtPid)
    /\ pc' = "done"
    /\ stages' = Enter(stages, "write") \o <<"close">>
    /\ UNCHANGED <<fnVars, probe, inVars, fileVars, procVars, pid_str, status, input_data,
                   written, shVars, shErr, catVars, tgtVars, stdinPipe>>

(***************************************************************************)
(* The call and the processes it starts                                    *)
(***************************************************************************)
Next ==
    \/ UnixLaunchShell
    \/ UnixReadPid
    \/ UnixWait
    \/ UnixCollectStderr
    \/ ShFork
    \/ ShEcho
    \/ ShExit
    \/ ShAbort
    \/ CatOpen
    \/ CatCopy
    \/ CatExit
    \/ TargetRedirect
    \/ TargetExec
    \/ ChildWrite
    \/ ChildRead
    \/ ChildReadEof
    \/ ChildCloseStdin
    \/ ChildExit
    \/ WinOpenOutput
    \/ WinCloneHandle
    \/ WinSpawn
    \/ WinReadInput
    \/ WinWrite
    \/ WinWriteFailed
    \/ WinReturn

Spec == Init /\ [][Next]_vars

\* The caller's thread runs; the shell, `cat` and nohup take the steps they can
\* take.  Nothing obliges the target executable to read, to write or to exit,
\* nor the shell to fail.
Fairness ==
    /\ WF_vars(UnixLaunchShell) /\ WF_vars(UnixReadPid)
    /\ WF_vars(UnixWait) /\ WF_vars(UnixCollectStderr)
    /\ WF_vars(WinOpenOutput) /\ WF_vars(WinCloneHandle) /\ WF_vars(WinSpawn)
    /\ WF_vars(WinReadInput) /\ WF_vars(WinWrite) /\ WF_vars(WinWriteFailed)
    /\ WF_vars(WinReturn)
    /\ WF_vars(ShFork) /\ WF_vars(ShEcho) /\ WF_vars(ShExit)
    /\ WF_vars(CatOpen) /\ WF_vars(CatCopy) /\ WF_vars(CatExit)
    /\ WF_vars(TargetRedirect) /\ WF_vars(TargetExec)

FairSpec == Init /\ [][Next]_vars /\ Fairness

Returns == pc # "done" /\ pc' = "done"

(***************************************************************************)
(* Claims about the call                                                   *)
(***************************************************************************)
\* C1: a request whose executable does not exist ends in a failure, never in
\* Ok with a process identifier.
C1_MissingExeFails ==
    (~exeExists /\ pc = "done") => result.kind = "Err"

\* C2: on Windows a missing input file gives the input-read failure while no
\* child process has been created.
C2_InputFailureBeforeChild ==
    (platform = "windows" /\ result = Err("InputReadFailure")) =>
        (tgtPid = 0 /\ \A p \in DOMAIN role : role[p] # "target")

\* C3: the identifier the POSIX spawn returns is that of the last stage of the
\* backgrounded pipeline, the process nohup turns into the target executable;
\* never that of the launching shell or of cat.
C3_PidIsTarget ==
    (platform = "unix" /\ result.kind = "Ok") =>
        /\ result.pid \in DOMAIN role
        /\ role[result.pid] = "target"
        /\ result.pid = tgtPid
        /\ result.pid \notin {shPid, catPid, CallerPid}

\* the POSIX spawn has returned Ok and the executable runs
C3_Witness ==
    /\ platform = "unix" /\ pc = "done" /\ result.kind = "Ok"
    /\ tgtPc = "running" /\ catPc = "copy"

\* C4 as claimed: when spawn returns Ok(id) for an existing executable,
\* is_alive(id) is true in the state it returns in, whatever the child does.
C4_AliveAtReturn ==
    [][(Returns /\ result'.kind = "Ok" /\ exeExists)
          => is_process_alive(result.pid)']_vars

\* C4 as amended: when spawn returns Ok(id), id is the child's identifier, and
\* is_alive(id) is true in the state it returns in unless the child has already
\* exited of its own accord.
C4_AliveUnlessExited ==
    [][(Returns /\ result'.kind = "Ok")
          => /\ result'.pid = tgtPid'
             /\ is_process_alive(result.pid)' \/ termBy' = "self"]_vars

\* spawn has returned Ok(id) and the process id exists
C4_Witness ==
    /\ pc = "done" /\ result.kind = "Ok"
    /\ is_process_alive(result.pid)
    /\ tgtPc = "running"

\* C5: on POSIX a missing input file makes the call, once the shell was
\* launched and waited for, return the shell failure, not Ok(pid).
C5_MissingInputShellFailure ==
    (platform = "unix" /\ ~inputExists /\ pc = "done" /\ status # "none") =>
        result = Err("ShellFailure")

\* C8: the output file is what it held when the call was made followed by the
\* child's stdout and stderr writes in the order the child issued them, in
\* every state, hence also once the child has finished.
C8_AppendOnly ==
    outFile = prior \o childLog

\* the file held a header, the child wrote to both streams and has finished
C8_Witness ==
    /\ prior # <<>>
    /\ tgtPc = "exited"
    /\ childLog = <<"err", "out">>
    /\ outFile = <<"header", "err", "out">>

\* C9: on POSIX, once the shell has exited the call returns, whether or not
\* the child and cat ever terminate, on the success path and on the
\* shell-failure path.
C9_ReturnsOnceShellExited ==
    (platform = "unix" /\ shPc = "exited") ~> (pc = "done")

\* On the success path the call does return once the shell has exited (the part
\* of C9 the code keeps).
SuccessPathReturns ==
    (platform = "unix" /\ shPc = "exited" /\ shStatus = "success") ~> (pc = "done")

\* C10 as claimed: when the stdin write fails on Windows, the child is in the
\* process table in the state the error is returned in.
C10_ChildInTableAtError ==
    [][(Returns /\ result' = Err("StdinWriteFailure"))
          => tgtPid' \in alive']_vars

\* C10 as amended: when the stdin write fails on Windows, returning the error
\* does nothing to the child (the process table is as before, the child is
\* neither killed nor waited for); the child is in the process table in that
\* state unless it has already exited of its own accord.
C10_ChildLeftAlone ==
    [][(Returns /\ result' = Err("StdinWriteFailure"))
          => /\ alive' = alive
             /\ tgtPc' = tgtPc /\ termBy' = termBy
             /\ tgtPid' \in alive' \/ termBy' = "self"]_vars

\* the stdin write has failed and the child, which closed its stdin, runs
C10_Witness ==
    /\ platform = "windows" /\ pc = "done"
    /\ result = Err("StdinWriteFailure")
    /\ tgtPid \in alive /\ tgtPc = "running"

(***************************************************************************)
(* shell_escape applied to every text of a bounded set                     *)
(***************************************************************************)
InitEscape ==
    /\ fnPc = "in"
    /\ escIn \in TextsUpTo(EscChars, MaxLen)
    /\ escOut = <<>>
    /\ req = NoRequest
    /\ shell_cmd = <<>>
    /\ WorldIdle

Escape ==
    /\ fnPc = "in"
    /\ escOut' = shell_escape(escIn)
    /\ fnPc' = "out"
    /\ UNCHANGED <<escIn, req, shell_cmd, worldVars>>

NextEscape == Escape

SpecEscape == InitEscape /\ [][NextEscape]_vars

CountQuotes(s) == Cardinality({k \in 1..Len(s) : s[k] = SQ})

\* C6: shell_escape(s) is s in single quotes, every embedded single quote
\* replaced by the four characters '\'' (so the other characters are kept and
\* the result is 2 + 3 * quotes longer), and the shell reads the result back
\* as exactly one word, equal to s.
C6_EscapeRoundTrip ==
    fnPc = "out" =>
        /\ Len(escOut) = Len(escIn) + 2 + 3 * CountQuotes(escIn)
        /\ escOut[1] = SQ /\ escOut[Len(escOut)] = SQ
        /\ SelectSeq(escOut, LAMBDA c : c \notin {SQ, BS})
             = SelectSeq(escIn, LAMBDA c : c \notin {SQ, BS})
        /\ ShTokens(escOut) = <<Word(escIn, 0)>>

\* adjacent quotes and another character have been escaped
C6_Witness ==
    /\ fnPc = "out"
    /\ escIn = <<SQ, SQ, SP>>
    /\ escOut = <<SQ, SQ, BS, SQ, SQ, SQ, BS, SQ, SQ, SP, SQ>>

(***************************************************************************)
(* The command line composed for every request of a bounded set            *)
(***************************************************************************)
ArgTexts == {<<>>, <<"a">>, <<SQ, SP>>, <<"2">>, <<">", "a">>}
CliPaths == {<<"x">>, <<"x", SP, SQ>>}
EnvLists == {<<>>, << <<<<"K">>, <<"v">>>> >>,
             << <<<<"K">>, <<SQ, SP>>>>, <<<<"L">>, <<>>>> >>,
             << <<<<"K", SP, "r">>, <<"v">>>> >>}

ArgLists == UNION {[1..k -> ArgTexts] : k \in 0..MaxArgs}

InitCompose ==
    /\ fnPc = "in"
    /\ escIn = <<>>
    /\ escOut = <<>>
    /\ req \in [cli_path : CliPaths, args : ArgLists, env_vars : EnvLists,
                input_file : {<<"i">>}, output_file : {<<"o", SP>>}]
    /\ shell_cmd = <<>>
    /\ WorldIdle

Compose ==
    /\ fnPc = "in"
    /\ shell_cmd' = ShellCmd(req)
    /\ fnPc' = "out"
    /\ UNCHANGED <<escIn, escOut, req, worldVars>>

NextCompose == Compose

SpecCompose == InitCompose /\ [][NextCompose]_vars

\* every override's name is a name of the shell language
WellFormedNames(env) ==
    \A k \in 1..Len(env) :
        /\ env[k][1] # <<>>
        /\ env[k][1][1] \in NameStart
        /\ \A j \in 1..Len(env[k][1]) : env[k][1][j] \in NameChar

\* The executable receives the caller's arguments: same count, same order,
\* each equal to the original text (the part of C7 the code keeps).
ArgsArrive ==
    (fnPc = "out" /\ WellFormedNames(req.env_vars)) =>
        /\ TargetExe(shell_cmd) = <<req.cli_path>>
        /\ TargetArgs(shell_cmd) = req.args

\* C7: the executable receives exactly the caller's arguments, and the composed
\* line holds no stray separator between the executable and `>>` (stated for
\* the requests whose override names are shell names; the others are C13's).
C7_ArgsArriveNoStraySeparator ==
    (fnPc = "out" /\ WellFormedNames(req.env_vars)) =>
        /\ TargetExe(shell_cmd) = <<req.cli_path>>
        /\ TargetArgs(shell_cmd) = req.args
        /\ ~DoubleBlank(shell_cmd, 1, FALSE)


(***************************************************************************)
(* The liveness probe, asked at any moment of a call                       *)
(***************************************************************************)
\* the identifier the test takes as held by no process (detached.rs:259)
UnusedPid == 999999

\* the identifiers asked about: every one handed out so far, the next one,
\* and the test's
ProbePids == DOMAIN role \cup {nextPid, UnusedPid}

\* is_process_alive(p), as the test calls it (255, 259): the answer is taken
\* and nothing else happens
ProbeAlive ==
    \E p \in ProbePids :
        /\ probe' = [pid |-> p, answer |-> is_process_alive(p), asked |-> TRUE]
        /\ UNCHANGED <<fnVars, inVars, fileVars, procVars, callVars, shVars, shErr,
                       catVars, tgtVars, stdinPipe>>

NextProbe ==
    \/ Next
    \/ ProbeAlive

SpecProbe == Init /\ [][NextProbe]_vars

\* C11: a liveness query can be made in every state (it waits for nothing);
\* its answer is yes exactly for the identifiers of the processes that exist
\* after it, so yes for the caller and no for an identifier no process holds;
\* and it changes neither the process table nor anything else of the world.
C11_ProbeIsPureQuery ==
    /\ [](ENABLED ProbeAlive)
    /\ [][(probe' # probe) =>
            /\ probe'.asked
            /\ probe'.answer = (probe'.pid \in alive')
            /\ (probe'.pid = CallerPid => probe'.answer)
            /\ (probe'.pid \notin DOMAIN role' => ~probe'.answer)
            /\ alive' = alive /\ role' = role /\ nextPid' = nextPid
            /\ UNCHANGED <<fileVars, callVars, shVars, shErr, catVars, tgtVars,
                           stdinPipe>>]_vars

\* the caller, the target and an unused identifier have been asked about while
\* the target was running: here the caller
C11_Witness ==
    /\ probe.asked /\ probe.pid = CallerPid /\ probe.answer
    /\ tgtPid \in alive /\ tgtPc = "running"

(***************************************************************************)
(* The handshake with a shell that printed any lines and exited with any   *)
(* status: the read loop, the wait, the status check and the PID parse     *)
(***************************************************************************)
\* lines a program run as `sh` can have printed: a number, a number in
\* blanks, a word, an empty line, bytes that are not UTF-8
LineTexts == {<<"7">>, <<SP, "4", "2", SP>>, <<"x">>, <<>>, <<InvalidByte>>}

RECURSIVE LinesUpTo(_)
LinesUpTo(n) ==
    IF n = 0 THEN {<<>>}
    ELSE LinesUpTo(n - 1)
           \cup {Append(ls, l) : ls \in {x \in LinesUpTo(n - 1) : Len(x) = n - 1},
                                 l \in LineTexts}

Outputs == LinesUpTo(MaxLines)

\* the shell has been launched (98-107), has written its lines and has exited
InitHandshake ==
    /\ fnPc = "idle" /\ escIn = <<>> /\ escOut = <<>>
    /\ req = NoRequest /\ shell_cmd = <<>>
    /\ platform = "unix" /\ exeExists = TRUE /\ inputExists = TRUE
    /\ inputData = InputBytes /\ prior = <<"header">> /\ badPath = "none"
    /\ outExists = TRUE /\ outFile = prior /\ ofd = Closed
    /\ alive = {CallerPid}
    /\ role = (CallerPid :> "caller") @@ ((CallerPid + 1) :> "sh")
    /\ nextPid = CallerPid + 2
    /\ pc = "read" /\ result = NoResult /\ pid_str = <<>> /\ status = "none"
    /\ input_data = <<>> /\ written = 0 /\ stdinParent = FALSE
    /\ stages = <<"validate", "launch">>
    /\ shPid = CallerPid + 1 /\ shPc = "exited"
    /\ shStatus \in {"success", "failure"}
    /\ lastBg = 0
    /\ shOut \in Outputs /\ shWrote = shOut /\ shErr = <<>>
    /\ catPid = 0 /\ catPc = "none" /\ catPos = 0
    /\ tgtPid = 0 /\ tgtPc = "none" /\ termBy = "none"
    /\ stdinPipe = <<>> /\ childStdin = FALSE /\ delivered = <<>> /\ childLog = <<>>
    /\ childEof = FALSE
    /\ probe = NoProbe

NextHandshake ==
    \/ UnixReadPid
    \/ UnixWait
    \/ UnixCollectStderr

SpecHandshake == InitHandshake /\ [][NextHandshake]_vars

\* C12: once the shell's status is known, a status other than success gives
\* the shell failure whatever line was read; with status success a line that
\* is no decimal number, the empty one included, gives the PID-parse failure;
\* Ok(pid) is returned exactly when the status is success and the line parses.
C12_StatusBeforeParse ==
    (platform = "unix" /\ pc = "done" /\ status # "none") =>
        /\ (status # "success") => result = Err("ShellFailure")
        /\ (status = "success" /\ ~ParseU32(pid_str).ok)
              => result = Err("PidParseFailure")
        /\ (status = "success" /\ pid_str = <<>>) => result = Err("PidParseFailure")
        /\ (result.kind = "Ok") <=> (status = "success" /\ ParseU32(pid_str).ok)
        /\ (result.kind = "Ok") => result.pid = ParseU32(pid_str).val

\* the shell failed after it had printed a well-formed line
C12_Witness ==
    /\ pc = "done" /\ status = "failure"
    /\ pid_str = <<"4", "2">>
    /\ result = Err("ShellFailure")

\* the place of the first line that can be read, 0 when there is none
FirstReadable(lines) ==
    IF \E k \in 1..Len(lines) : Readable(lines[k])
    THEN CHOOSE k \in 1..Len(lines) :
            /\ Readable(lines[k])
            /\ \A j \in 1..(k - 1) : ~Readable(lines[j])
    ELSE 0

FirstLine(lines) ==
    IF FirstReadable(lines) = 0 THEN <<>> ELSE lines[FirstReadable(lines)]

\* C14: the PID candidate is the first line of the shell's stdout that could
\* be read, trimmed (empty when there is none); the lines after it stay
\* unread; and every other output with the same first readable line gives the
\* same candidate, hence the same result under the same status.
C14_FirstLineDecides ==
    (platform = "unix" /\ \E k \in 1..Len(stages) : stages[k] = "read") =>
        /\ pid_str = Trim(FirstLine(shWrote))
        /\ shOut = IF FirstReadable(shWrote) = 0 THEN <<>>
                   ELSE SubSeq(shWrote, FirstReadable(shWrote) + 1, Len(shWrote))
        /\ \A other \in Outputs :
              (/\ (FirstReadable(other) = 0) = (FirstReadable(shWrote) = 0)
               /\ FirstLine(other) = FirstLine(shWrote))
                 => ReadLoop(other).pid_str = pid_str
        /\ result \in {NoResult, Err("WaitFailure"), Err("ShellFailure"),
                       UnixParsed(Trim(FirstLine(shWrote)))}

\* an unreadable line came first, the number in blanks second, a word third
C14_Witness ==
    /\ shWrote = <<<<InvalidByte>>, <<SP, "4", "2", SP>>, <<"x">>>>
    /\ shOut = <<<<"x">>>>
    /\ result = Ok(42)

(***************************************************************************)
(* The tokens of the composed command line                                 *)
(***************************************************************************)
\* a word all of whose characters were quoted, and a word written bare
QuotedWord(t) == Word(t, 0)
BareWord(t) == Word(t, Len(t))

\* the tokens the line has when every text of the request stays inside the one
\* word it was put in: cat IN | NAME=value.. nohup EXE ARG.. >> OUT 2>&1 & echo $!
ExpectedTokens(r) ==
    <<BareWord(<<"c", "a", "t">>), QuotedWord(r.input_file), Op(<<"|">>)>>
    \o [k \in 1..Len(r.env_vars) |->
          Word(r.env_vars[k][1] \o <<"=">> \o r.env_vars[k][2],
               Len(r.env_vars[k][1]) + 1)]
    \o <<BareWord(<<"n", "o", "h", "u", "p">>), QuotedWord(r.cli_path)>>
    \o [k \in 1..Len(r.args) |-> QuotedWord(r.args[k])]
    \o <<Op(<<">", ">">>), QuotedWord(r.output_file), IoNumber(<<"2">>),
         Op(<<">", "&">>), BareWord(<<"1">>), Op(<<"&">>),
         BareWord(<<"e", "c", "h", "o">>), BareWord(<<"$", "!">>)>>

\* C13: no text of the request adds a token or an operator to the composed
\* line: the shell reads the line as the fixed tokens of the template with
\* one word for the input path, one per override, one for the executable, one
\* per argument and one for the output path.
C13_NoTextAddsToken ==
    fnPc = "out" => ShTokens(shell_cmd) = ExpectedTokens(req)

\* The same for the requests whose override names are shell names (the part of
\* C13 the code keeps).
EscapedTextsAddNoToken ==
    (fnPc = "out" /\ WellFormedNames(req.env_vars))
        => ShTokens(shell_cmd) = ExpectedTokens(req)

\* the place of the command word `nohup`, 0 when there is none
IndexOfNohup(toks) ==
    LET hits == {k \in 1..Len(toks) : toks[k] = BareWord(<<"n", "o", "h", "u", "p">>)}
    IN  IF hits = {} THEN 0 ELSE CHOOSE k \in hits : \A j \in hits : k <= j

\* the overrides are the tokens between `|` and `nohup`, one assignment word
\* NAME=value each, in the caller's order; none stands before the `|`
EnvPlaced(r, toks) ==
    LET p == IndexOfOp(toks, <<"|">>)
        n == IndexOfNohup(toks)
    IN  /\ p > 0 /\ n = p + Len(r.env_vars) + 1
        /\ \A k \in 1..Len(r.env_vars) :
              /\ n <= Len(toks)
              /\ IsAssignment(toks[p + k])
              /\ toks[p + k].text = r.env_vars[k][1] \o <<"=">> \o r.env_vars[k][2]
        /\ \A k \in 1..p : ~IsAssignment(toks[k])

\* C17: every override is one NAME=value token after the pipe symbol and
\* before `nohup`, in the caller's order, and with no override no token stands
\* between the pipe symbol and `nohup`.
C17_EnvBetweenPipeAndNohup ==
    fnPc = "out" => EnvPlaced(req, ShTokens(shell_cmd))

\* The same for the requests whose override names are shell names (the part of
\* C17 the code keeps).
NamedEnvPlaced ==
    (fnPc = "out" /\ WellFormedNames(req.env_vars))
        => EnvPlaced(req, ShTokens(shell_cmd))

(***************************************************************************)
(* Claims about the stages of a call                                       *)
(***************************************************************************)
IsPrefix(a, b) == Len(a) <= Len(b) /\ SubSeq(b, 1, Len(a)) = a

NoRepeat(st) == \A i, j \in 1..Len(st) : i # j => st[i] # st[j]

Targets == {p \in DOMAIN role : role[p] = "target"}
Shells == {p \in DOMAIN role : role[p] = "sh"}

\* the order the claim gives for the Windows stages, and each stage's error
WinStageOrder == <<"open", "clone", "spawn", "readinput", "write", "close">>

WinStageError(stage) ==
    CASE stage = "open" -> "OutputOpenFailure"
      [] stage = "clone" -> "HandleCloneFailure"
      [] stage = "spawn" -> "SpawnFailure"
      [] stage = "readinput" -> "InputReadFailure"
      [] stage = "write" -> "StdinWriteFailure"
      [] OTHER -> "none"

\* C15: the Windows variant runs open output, duplicate handle, spawn child,
\* read input, write stdin, close stdin in this order; a failure is the error
\* of the stage run last and ends the call; an output file that does not
\* exist is an open failure and is not created; and after an open or a
\* duplication failure there is no child and the input has not been read.
C15_WinStagesInOrder ==
    platform = "windows" =>
        /\ IsPrefix(stages, WinStageOrder)
        /\ (result.kind = "Err") =>
              /\ pc = "done" /\ stages # <<>>
              /\ result.err = WinStageError(stages[Len(stages)])
        /\ (result.kind = "Ok") => stages = WinStageOrder
        /\ (prior = <<>> /\ pc = "done") =>
              /\ result = Err("OutputOpenFailure")
              /\ ~outExists /\ outFile = <<>>
        /\ (result.err \in {"OutputOpenFailure", "HandleCloneFailure"}) =>
              /\ tgtPid = 0 /\ Targets = {} /\ alive = {CallerPid}
              /\ input_data = <<>>
              /\ \A k \in 1..Len(stages) : stages[k] \notin {"spawn", "readinput"}

\* the handle could not be duplicated
C15_Witness ==
    /\ platform = "windows"
    /\ result = Err("HandleCloneFailure")
    /\ stages = <<"open", "clone">>
    /\ inputExists /\ exeExists

\* C16: on POSIX, when the executable path, the input path or the output path
\* is no valid text, the call ends with the invalid-path error and has
\* launched no shell: no process was created and no file was touched.
C16_InvalidPathBeforeShell ==
    (platform = "unix" /\ badPath # "none") =>
        /\ pc = "done" => result = Err("InvalidPath")
        /\ result \in {NoResult, Err("InvalidPath")}
        /\ shPid = 0 /\ Shells = {} /\ alive = {CallerPid} /\ DOMAIN role = {CallerPid}
        /\ outFile = prior /\ outExists = (prior # <<>>) /\ ofd = Closed
        /\ \A k \in 1..Len(stages) : stages[k] = "validate"

\* the output path is no valid text, and the output file does not exist
C16_Witness ==
    /\ platform = "unix" /\ badPath = "output"
    /\ pc = "done" /\ result = Err("InvalidPath")
    /\ ~outExists

\* C18: a call launches at most one shell and creates at most one target
\* process (on Windows no shell at all), runs no stage twice, and is over in
\* the state in which a failure is returned; once it is over no process is
\* created any more.
C18_OneShellOneChild ==
    /\ [](/\ Cardinality(Shells) <= 1
          /\ Cardinality(Targets) <= 1
          /\ (platform = "windows" => Shells = {} /\ catPid = 0)
          /\ (platform = "unix" => Shells \subseteq {shPid} /\ Targets \subseteq {tgtPid})
          /\ NoRepeat(stages)
          /\ (result.kind = "Err" => pc = "done"))
    /\ [][(pc = "done") => (pc' = "done" /\ result' = result /\ stages' = stages
                             /\ role' = role)]_vars

\* the shell failed after it had started the pipeline
C18_Witness ==
    /\ platform = "unix"
    /\ result = Err("ShellFailure")
    /\ stages = <<"validate", "launch", "read", "wait", "collect">>
    /\ Cardinality(Shells) = 1 /\ Cardinality(Targets) = 1

(***************************************************************************)
(* The child's stdin on Windows, with a child that reads it to the end     *)
(***************************************************************************)
ReaderFairness == WF_vars(ChildRead) /\ WF_vars(ChildReadEof)

FairReaderSpec == Init /\ [][Next]_vars /\ Fairness /\ ReaderFairness

\* the Windows call is over and had created the child
WinReturned == platform = "windows" /\ pc = "done" /\ tgtPid # 0

\* C19: on Windows, whenever the call is over after the child was created
\* (Ok, input-read failure or stdin-write failure), the caller's end of the
\* child's stdin is closed, so a child that reads its stdin reaches the end
\* of input; after Ok the bytes read and still to be read are the input file's
\* bytes in order, and at the end of input the child has read all of them.
C19_StdinClosedAtReturn ==
    /\ [](WinReturned =>
            /\ ~stdinParent
            /\ result \in {Ok(tgtPid), Err("InputReadFailure"), Err("StdinWriteFailure")}
            /\ IsPrefix(delivered, inputData)
            /\ (result.kind = "Ok") => delivered \o stdinPipe = inputData
            /\ (result.kind = "Ok" /\ childEof) => delivered = inputData)
    /\ (WinReturned ~> (childEof \/ ~childStdin))

\* the child has read the whole input and then the end of input
C19_Witness ==
    /\ platform = "windows" /\ result.kind = "Ok"
    /\ childEof /\ delivered = inputData /\ Len(delivered) = InputLen

====
